---- MODULE Spec2Model ----
(***************************************************************************)
(* GitHub authentication: the login strategy chains of the desktop servers *)
(* and the nonce tracking of the redirect flow.                            *)
(***************************************************************************)
EXTENDS Integers, Sequences, FiniteSets, TLC

VARIABLES
    \* ---- the login chain (GitHubServer, *EnterpriseServer) ----
    srvKind,          \* class of the server object: "github", "simple", "internet", "web"
    supported,        \* isSupportedEnvironment(callbackUri)
    extKind,          \* this._extensionKind
    installed,        \* installed_version the /meta endpoint reports
    cachedVersion,    \* this._cachedEnterpriseVersion
    version,          \* const version of SimpleGitHubEnterpriseServer.login
    lpc,              \* position of the running login call
    chain,            \* the login method that is executing
    blk,              \* index of the try block of that method
    userCancelled,    \* this.userCancelled
    log,              \* what the call has done so far (history)
    result,           \* what the call returned or threw
    calls,            \* number of login calls started
    \* ---- the redirect flow (AbstractGitHubServer) ----
    pendingNonces,          \* this._pendingNonces: scopes -> nonces
    codeExchangePromises,   \* this._codeExchangePromises: scopes -> promise (0: none)
    prom,                   \* the promises promiseFromEvent(uriHandler.event, handleUri) made
    att,                    \* the doLoginWithoutLocalServer calls
    timer,                  \* the 5 minute timer of each call
    accepted,               \* per nonce: callbacks that started a code exchange (history)
    delivered,              \* number of URI callbacks delivered
    ended,                  \* per call: how often it has ended (history)
    \* ---- the local server flow (AbstractNodeGitHubServer) ----
    flow,                   \* which flow the behaviour exercises
    ls,                     \* the doLoginWithLocalServer call
    stopClock,              \* seconds since the timer of server.stop() was set
    \* ---- device code polling and the code exchange ----
    dc,                     \* the waitForDeviceCodeAccessToken call
    xc,                     \* the server object and its exchangeCodeForToken call
    pat,                    \* the doLoginWithPat call
    \* ---- the workbench and the editor ----
    wm,                     \* the WatermarkContribution and the editor part
    tf,                     \* the TabFocusImpl object and the events it fired
    ic                      \* the provideInlineCompletions call

loginVars == <<srvKind, supported, extKind, installed, cachedVersion, version,
               lpc, chain, blk, userCancelled, log, result, calls>>

redirVars == <<pendingNonces, codeExchangePromises, prom, att, timer, accepted,
               delivered, ended>>

localVars == <<ls, stopClock>>

otherVars == <<pat, wm, tf, ic>>

vars == <<loginVars, redirVars, flow, localVars, dc, xc, otherVars>>

\* What the actions of one part leave alone.
notLoginVars == <<redirVars, flow, localVars, dc, xc, otherVars>>
notRedirVars == <<loginVars, flow, localVars, dc, xc, otherVars>>
notLocalVars == <<loginVars, flow, redirVars, dc, xc, otherVars>>
notDeviceVars == <<loginVars, flow, redirVars, localVars, xc, otherVars>>
notExchangeVars == <<loginVars, flow, redirVars, localVars, dc, otherVars>>
authVars == <<loginVars, flow, redirVars, localVars, dc, xc>>
notPatVars == <<authVars, wm, tf, ic>>
notWatermarkVars == <<authVars, pat, tf, ic>>
notTabFocusVars == <<authVars, pat, wm, ic>>
notInlineVars == <<authVars, pat, wm, tf>>

\* ------------------------------------------------------------------ bounds
MaxLogins == 2
MaxAttempts == 2
MaxCallbacks == 2
MaxExchanges == 2
MaxPolls == 121
MaxWatermarks == 2          \* watermark elements in the editor part
MaxTabCalls == 4            \* setTabFocusMode calls
MaxItems == 2               \* items in the answer of one provider

\* ------------------------------------------------------- JavaScript values
\* A thrown value: a string (reject('Timed out')) or an Error with a message.
\* user records whether the throw site is a user cancellation (history only).
Str(m, u) == [isErr |-> FALSE, msg |-> m, user |-> u]
Err(m, u) == [isErr |-> TRUE, msg |-> m, user |-> u]
NoE == Str("", FALSE)

\* What a call returned or threw.
NoResult == [kind |-> "none", v |-> ""]
Token(s) == [kind |-> "token", v |-> s]
Failure(m) == [kind |-> "error", v |-> m]

\* The values of this.userCancelled: undefined, a boolean or a string.
UNDEF == [t |-> "undefined", b |-> FALSE, s |-> ""]
BoolV(x) == [t |-> "boolean", b |-> x, s |-> ""]
StrV(x) == [t |-> "string", b |-> FALSE, s |-> x]

\* JavaScript truthiness of such a value.
Truthy(v) == (v.t = "boolean" /\ v.b) \/ (v.t = "string" /\ v.s # "")

\* e.message ?? e === 'User Cancelled': === binds tighter than ??, an Error
\* always has a message and a string has none.
CatchValue(e) ==
    IF e.isErr THEN StrV(e.msg) ELSE BoolV(e.msg = "User Cancelled")

\* -------------------------------------------------- version strings
\* A string is a sequence of one-character strings.
Code(c) ==
    CASE c = "." -> 46 [] c = "0" -> 48 [] c = "1" -> 49 [] c = "2" -> 50
      [] c = "3" -> 51 [] c = "4" -> 52 [] c = "5" -> 53 [] c = "6" -> 54
      [] c = "7" -> 55 [] c = "8" -> 56 [] c = "9" -> 57

\* a >= b on JavaScript strings: by code unit, a proper prefix is smaller.
RECURSIVE StrGE(_, _)
StrGE(a, b) ==
    IF b = <<>> THEN TRUE
    ELSE IF a = <<>> THEN FALSE
    ELSE IF Code(Head(a)) # Code(Head(b)) THEN Code(Head(a)) > Code(Head(b))
    ELSE StrGE(Tail(a), Tail(b))

\* s.split('.')
RECURSIVE SplitDot(_, _, _)
SplitDot(s, cur, acc) ==
    IF s = <<>> THEN Append(acc, cur)
    ELSE IF Head(s) = "." THEN SplitDot(Tail(s), <<>>, Append(acc, cur))
    ELSE SplitDot(Tail(s), Append(cur, Head(s)), acc)

Split(s) == SplitDot(s, <<>>, <<>>)

\* Number(s) of a string of digits.
RECURSIVE Num(_)
Num(d) == IF d = <<>> THEN 0 ELSE 10 * Num(SubSeq(d, 1, Len(d) - 1)) + (Code(d[Len(d)]) - 48)

NoVersion == <<"undefined">>
V_3_1_0 == <<"3", ".", "1", ".", "0">>
V_3_0_9 == <<"3", ".", "0", ".", "9">>
V_3_10_0 == <<"3", ".", "1", "0", ".", "0">>
V_4_0_0 == <<"4", ".", "0", ".", "0">>
V_2_22_0 == <<"2", ".", "2", "2", ".", "0">>
V_3 == <<"3">>
Versions == {V_3_1_0, V_3_0_9, V_3_10_0, V_4_0_0, V_2_22_0, V_3}

\* if (version) { [major, minor] = version.split('.');
\*   if (major && minor && major >= '3' && minor >= '1') ... }
DeviceCodeSupported(v) ==
    /\ v # NoVersion
    /\ v # <<>>
    /\ LET parts == Split(v)
       IN /\ Len(parts) >= 2
          /\ parts[1] # <<>>
          /\ parts[2] # <<>>
          /\ StrGE(parts[1], <<"3">>)
          /\ StrGE(parts[2], <<"1">>)

\* ------------------------------------------------------------ strategies
\* What each strategy can throw, by throw site.
Thrown(s) ==
    CASE s = "redirect" ->
            { Str("Timed out", FALSE), Str("User Cancelled", TRUE),
              Str("Cancelled", FALSE), Err("No code", FALSE),
              Err("token exchange body", FALSE), Err("", FALSE) }
      [] s = "local" ->
            { Str("Timed out", FALSE), Str("User Cancelled", TRUE),
              Err("token exchange body", FALSE), Err("", FALSE) }
      [] s = "device" ->
            { Err("Failed to get one-time code", FALSE),
              Err("User Cancelled", TRUE), Err("error_description", FALSE),
              Err("", FALSE), Err("Cancelled", FALSE) }
      [] s = "pat" ->
            { Err("User Cancelled", TRUE), Err("network error", FALSE),
              Err("The provided token does not match the requested scopes", FALSE) }

\* promptToContinue throws this when the answer is not Yes.
PromptDeclined == Err("Cancelled", TRUE)

\* The try blocks of each login method, in program order.
GitHubServerBlocksSwapped ==
    << [s |-> "redirect", prompt |-> FALSE, guard |-> "supported"],
       [s |-> "device", prompt |-> TRUE, guard |-> "always"],
       [s |-> "local", prompt |-> TRUE, guard |-> "ui"],
       [s |-> "pat", prompt |-> TRUE, guard |-> "notSupported"] >>
GitHubServerBlocks ==
    << [s |-> "redirect", prompt |-> FALSE, guard |-> "supported"],
       [s |-> "local", prompt |-> TRUE, guard |-> "ui"],
       [s |-> "device", prompt |-> TRUE, guard |-> "always"],
       [s |-> "pat", prompt |-> TRUE, guard |-> "notSupported"] >>

SimpleGitHubEnterpriseServerBlocks ==
    << [s |-> "device", prompt |-> TRUE, guard |-> "version"],
       [s |-> "pat", prompt |-> TRUE, guard |-> "always"] >>

InternetAvailableGitHubEnterpriseServerBlocks ==
    << [s |-> "redirect", prompt |-> FALSE, guard |-> "supported"],
       [s |-> "local", prompt |-> TRUE, guard |-> "ui"] >>

\* The web GitHubServer.login: one of two branches.
WebGitHubServerBlocks ==
    << [s |-> "redirect", prompt |-> FALSE, guard |-> "supported"],
       [s |-> "pat", prompt |-> FALSE, guard |-> "notSupported"] >>

Blocks(c) ==
    CASE c = "github" -> GitHubServerBlocks
      [] c = "web" -> WebGitHubServerBlocks
      [] c = "simple" -> SimpleGitHubEnterpriseServerBlocks
      [] c = "internet" -> InternetAvailableGitHubEnterpriseServerBlocks

GuardHoldsAlways(g) == TRUE
GuardHolds(g) ==
    CASE g = "supported" -> supported
      [] g = "ui" -> extKind = "UI"
      [] g = "always" -> TRUE
      [] g = "notSupported" -> ~supported
      [] g = "version" -> DeviceCodeSupported(version)

\* promptToContinue: no prompt while this.userCancelled === undefined.
PromptNeededTruthy(uc) == Truthy(uc)
PromptNeeded(uc) == uc # UNDEF

Ev(e, s, x) == [ev |-> e, s |-> s, e |-> x]

\* ------------------------------------------------------------------- Init
LoginIdle ==
    /\ srvKind \in {"github", "simple", "internet", "web"}
    /\ supported \in BOOLEAN
    /\ extKind \in {"UI", "Workspace"}
    /\ installed \in Versions
    /\ cachedVersion = NoVersion
    /\ version = NoVersion
    /\ lpc = "idle"
    /\ chain = srvKind
    /\ blk = 1
    /\ userCancelled = UNDEF
    /\ log = <<>>
    /\ result = NoResult
    /\ calls = 0

\* ---------------------------------------------------------------- actions
\* login(scopes) is called: this.userCancelled = undefined.
Login ==
    /\ lpc \in {"idle", "done"}
    /\ calls < MaxLogins
    /\ calls' = calls + 1
    /\ userCancelled' = UNDEF
    /\ chain' = srvKind
    /\ blk' = 1
    /\ log' = <<>>
    /\ result' = NoResult
    /\ version' = NoVersion
    /\ lpc' = IF srvKind = "simple" THEN "version" ELSE "block"
    /\ UNCHANGED notLoginVars
    /\ UNCHANGED <<srvKind, supported, extKind, installed, cachedVersion>>

\* const version = await this.getEnterpriseVersion()
GetEnterpriseVersion ==
    /\ lpc = "version"
    /\ \/ /\ cachedVersion # NoVersion
          /\ version' = cachedVersion
          /\ UNCHANGED cachedVersion
       \/ /\ cachedVersion = NoVersion
          /\ \/ /\ cachedVersion' = installed        \* result.ok
                /\ version' = installed
             \/ /\ version' = NoVersion              \* !result.ok, or fetching throws
                /\ UNCHANGED cachedVersion
    /\ lpc' = "block"
    /\ blk' = 1
    /\ UNCHANGED notLoginVars
    /\ UNCHANGED <<srvKind, supported, extKind, installed, chain, userCancelled,
                   log, result, calls>>

\* The guard of the next try block is false: the block is skipped.
SkipBlock ==
    /\ lpc = "block"
    /\ blk <= Len(Blocks(chain))
    /\ ~GuardHolds(Blocks(chain)[blk].guard)
    /\ blk' = blk + 1
    /\ UNCHANGED notLoginVars
    /\ UNCHANGED <<srvKind, supported, extKind, installed, cachedVersion, version,
                   lpc, chain, userCancelled, log, result, calls>>

\* await this.promptToContinue() shows the warning message.
ShowPrompt ==
    /\ lpc = "block"
    /\ blk <= Len(Blocks(chain))
    /\ GuardHolds(Blocks(chain)[blk].guard)
    /\ Blocks(chain)[blk].prompt
    /\ PromptNeeded(userCancelled)
    /\ lpc' = "prompt"
    /\ log' = Append(log, Ev("prompt", Blocks(chain)[blk].s, NoE))
    /\ UNCHANGED notLoginVars
    /\ UNCHANGED <<srvKind, supported, extKind, installed, cachedVersion, version,
                   chain, blk, userCancelled, result, calls>>

\* The strategy of the block is called without a prompt.
StartStrategy ==
    /\ lpc = "block"
    /\ blk <= Len(Blocks(chain))
    /\ GuardHolds(Blocks(chain)[blk].guard)
    /\ ~(Blocks(chain)[blk].prompt /\ PromptNeeded(userCancelled))
    /\ lpc' = "running"
    /\ log' = Append(log, Ev("start", Blocks(chain)[blk].s, NoE))
    /\ UNCHANGED notLoginVars
    /\ UNCHANGED <<srvKind, supported, extKind, installed, cachedVersion, version,
                   chain, blk, userCancelled, result, calls>>

\* The user answers the prompt with Yes: the strategy is called.
AnswerYes ==
    /\ lpc = "prompt"
    /\ lpc' = "running"
    /\ log' = log \o << Ev("yes", Blocks(chain)[blk].s, NoE),
                        Ev("start", Blocks(chain)[blk].s, NoE) >>
    /\ UNCHANGED notLoginVars
    /\ UNCHANGED <<srvKind, supported, extKind, installed, cachedVersion, version,
                   chain, blk, userCancelled, result, calls>>

\* The user answers No or dismisses the prompt: promptToContinue throws
\* Error('Cancelled') inside the try block, whose catch records it.
AnswerNo ==
    /\ lpc = "prompt"
    /\ log' = Append(log, Ev("no", Blocks(chain)[blk].s, PromptDeclined))
    /\ userCancelled' = CatchValue(PromptDeclined)
    /\ blk' = blk + 1
    /\ lpc' = "block"
    /\ UNCHANGED notLoginVars
    /\ UNCHANGED <<srvKind, supported, extKind, installed, cachedVersion, version,
                   chain, result, calls>>

\* return await this.doLogin...(scopes)
StrategyReturns ==
    /\ lpc = "running"
    /\ log' = Append(log, Ev("token", Blocks(chain)[blk].s, NoE))
    /\ result' = Token(Blocks(chain)[blk].s)
    /\ lpc' = "done"
    /\ UNCHANGED notLoginVars
    /\ UNCHANGED <<srvKind, supported, extKind, installed, cachedVersion, version,
                   chain, blk, userCancelled, calls>>

\* catch (e) { this.userCancelled = e.message ?? e === 'User Cancelled'; }
StrategyThrows ==
    /\ lpc = "running"
    /\ chain # "web"
    /\ \E e \in Thrown(Blocks(chain)[blk].s) :
          /\ log' = Append(log, Ev("fail", Blocks(chain)[blk].s, e))
          /\ userCancelled' = CatchValue(e)
    /\ blk' = blk + 1
    /\ lpc' = "block"
    /\ UNCHANGED notLoginVars
    /\ UNCHANGED <<srvKind, supported, extKind, installed, cachedVersion, version,
                   chain, result, calls>>

\* The catch blocks of the web GitHubServer.login:
\* throw new Error(e.message ?? e === 'User Cancelled' ? 'Cancelled'
\*                                                     : 'No auth flow succeeded.')
WebStrategyThrows ==
    /\ lpc = "running"
    /\ chain = "web"
    /\ \E e \in Thrown(Blocks(chain)[blk].s) :
          /\ log' = Append(log, Ev("fail", Blocks(chain)[blk].s, e))
          /\ result' = Failure(IF Truthy(CatchValue(e)) THEN "Cancelled"
                               ELSE "No auth flow succeeded.")
    /\ lpc' = "done"
    /\ UNCHANGED notLoginVars
    /\ UNCHANGED <<srvKind, supported, extKind, installed, cachedVersion, version,
                   chain, blk, userCancelled, calls>>

\* return await super.login(scopes): this.userCancelled = undefined.
SuperLoginKeepsCancelled ==
    /\ lpc = "block"
    /\ chain = "internet"
    /\ blk > Len(Blocks(chain))
    /\ chain' = "simple"
    /\ log' = Append(log, Ev("super", "", NoE))
    /\ lpc' = "version"
    /\ blk' = 1
    /\ UNCHANGED notLoginVars
    /\ UNCHANGED <<srvKind, supported, extKind, installed, cachedVersion, version,
                   userCancelled, result, calls>>
SuperLogin ==
    /\ lpc = "block"
    /\ chain = "internet"
    /\ blk > Len(Blocks(chain))
    /\ chain' = "simple"
    /\ userCancelled' = UNDEF
    /\ log' = Append(log, Ev("super", "", NoE))
    /\ lpc' = "version"
    /\ blk' = 1
    /\ UNCHANGED notLoginVars
    /\ UNCHANGED <<srvKind, supported, extKind, installed, cachedVersion, version,
                   result, calls>>

\* throw new Error(this.userCancelled ? 'Cancelled' : 'No auth flow succeeded.')
FinalThrow ==
    /\ lpc = "block"
    /\ chain # "internet"
    /\ blk > Len(Blocks(chain))
    /\ result' = Failure(IF Truthy(userCancelled) THEN "Cancelled"
                         ELSE "No auth flow succeeded.")
    /\ lpc' = "done"
    /\ UNCHANGED notLoginVars
    /\ UNCHANGED <<srvKind, supported, extKind, installed, cachedVersion, version,
                   chain, blk, userCancelled, log, calls>>

LoginNext ==
    \/ Login
    \/ GetEnterpriseVersion
    \/ SkipBlock
    \/ ShowPrompt
    \/ StartStrategy
    \/ AnswerYes
    \/ AnswerNo
    \/ StrategyReturns
    \/ StrategyThrows
    \/ WebStrategyThrows
    \/ SuperLogin
    \/ FinalThrow


\* ------------------------------------------------------ the redirect flow
Attempts == 1..MaxAttempts
Scopes == {"s1", "s2"}

\* The authorization code of the k-th callback: the provider issues a new
\* code for every authorization.
CodeNames == <<"c1", "c2", "c3", "c4">>
Codes == {CodeNames[k] : k \in 1..MaxCallbacks}

\* The nonce login() draws for each call (crypto.getRandomValues).
NonceNames == <<"n1", "n2", "n3", "n4", "n5", "n6">>
Nonce(a) == NonceNames[a]

\* The query of a URI callback: '' stands for an absent (or empty) parameter,
\* "nX" for a nonce no call has registered.
Uris == [code : Codes \cup {""}, nonce : {Nonce(a) : a \in Attempts} \cup {"", "nX"}]

InSeq(x, q) == \E i \in DOMAIN q : q[i] = x

NoProm == [st |-> "none", scope |-> "", code |-> "", sub |-> FALSE, val |-> NoResult]
\* History of a call: while it waited, its listener ignored a callback (ign),
\* resolved with a callback that carried the nonce of the call (got).
NoAtt == [pc |-> "idle", scope |-> "", p |-> 0, outcome |-> NoResult, ign |-> FALSE,
          got |-> FALSE]

\* cancelled: token.isCancellationRequested of the progress notification.
NoLs == [pc |-> "idle", outcome |-> NoResult, code |-> "", timer |-> "off",
         cancelled |-> FALSE, server |-> "new"]

LocalIdle == ls = NoLs /\ stopClock = 0

RedirectIdle ==
    /\ pendingNonces = [s \in Scopes |-> <<>>]
    /\ codeExchangePromises = [s \in Scopes |-> 0]
    /\ prom = [a \in Attempts |-> NoProm]
    /\ att = [a \in Attempts |-> NoAtt]
    /\ timer = [a \in Attempts |-> "off"]
    /\ accepted = [a \in Attempts |-> 0]
    /\ delivered = 0
    /\ ended = [a \in Attempts |-> 0]

\* handleUri(scopes)(uri, resolve, reject): what the adapter does with a callback.
HandleUriNoNonceCheck(pn, s, uri) ==
    IF uri.code = "" THEN "rejectNoCode"
    ELSE IF uri.nonce = "" THEN "rejectNoNonce"
    ELSE "resolveExchange"
HandleUriNonceFirst(pn, s, uri) ==
    IF ~InSeq(uri.nonce, pn[s]) THEN "ignore"
    ELSE IF uri.code = "" THEN "rejectNoCode"
    ELSE "resolveExchange"
HandleUri(pn, s, uri) ==
    IF uri.code = "" THEN "rejectNoCode"
    ELSE IF uri.nonce = "" THEN "rejectNoNonce"
    ELSE IF ~InSeq(uri.nonce, pn[s]) THEN "ignore"
    ELSE "resolveExchange"

\* this._pendingNonces.set(scopes, [...existingNonces, nonce])
Registered(pn, s, n) == [pn EXCEPT ![s] = Append(@, n)]

\* this._pendingNonces.delete(scopes)
DeletedNoncesAll(pn, s) == [x \in Scopes |-> <<>>]
DeletedNoncesKept(pn, s) == pn
DeletedNonces(pn, s) == [pn EXCEPT ![s] = <<>>]

\* this._codeExchangePromises.delete(scopes)
DeletedPromiseKept(cep, s) == cep
DeletedPromise(cep, s) == [cep EXCEPT ![s] = 0]

\* The finally blocks of the calls that end in one turn, for their scopes.
RECURSIVE FinallyNonces(_, _)
FinallyNonces(pn, S) ==
    IF S = {} THEN pn
    ELSE LET s == CHOOSE x \in S : TRUE
         IN FinallyNonces(DeletedNonces(pn, s), S \ {s})

RECURSIVE FinallyPromises(_, _)
FinallyPromises(cep, S) ==
    IF S = {} THEN cep
    ELSE LET s == CHOOSE x \in S : TRUE
         IN FinallyPromises(DeletedPromise(cep, s), S \ {s})

\* A promise of promiseFromEvent settles once: reject and resolve are no-ops
\* on a promise that is settled or resolved with the exchange promise.
\* Settling disposes the subscription.
Rejected(pr, msg) ==
    IF pr.st = "pending"
    THEN [pr EXCEPT !.st = "rejected", !.sub = FALSE, !.val = Failure(msg)]
    ELSE pr

Resolved(pr, uri) ==
    IF pr.st = "pending"
    THEN [pr EXCEPT !.st = "locked", !.code = uri.code]
    ELSE pr

\* codeExchangePromise.cancel.fire(): reject('Cancelled')
CancelFired(pr) == Rejected(pr, "Cancelled")

\* The calls whose Promise.race waits for promise p.
Racers(p) == {a \in Attempts : att[a].pc = "race" /\ att[a].p = p}

\* Promise.race settles once: the first settled source gives the outcome.
RaceSettledAgain(a, o) == [att[a] EXCEPT !.pc = "done", !.outcome = o]
RaceSettled(a, o) ==
    IF att[a].pc = "race" THEN [att[a] EXCEPT !.pc = "done", !.outcome = o]
    ELSE att[a]

\* The calls in E end (their races settle with the value of their promise or,
\* for call a0, with o0) and run their finally blocks.
EndCalls(E, a0, o0, newProm, I, G) ==
    LET S == {att[a].scope : a \in E}
    IN /\ att' = [a \in Attempts |->
                    IF a \in E
                    THEN RaceSettled(a, IF a = a0 THEN o0 ELSE newProm[att[a].p].val)
                    ELSE IF a \in I THEN [att[a] EXCEPT !.ign = TRUE]
                    ELSE IF a \in G THEN [att[a] EXCEPT !.got = TRUE]
                    ELSE att[a]]
       /\ ended' = [a \in Attempts |-> IF a \in E THEN ended[a] + 1 ELSE ended[a]]
       /\ pendingNonces' = FinallyNonces(pendingNonces, S)
       /\ codeExchangePromises' = FinallyPromises(codeExchangePromises, S)
       /\ prom' = newProm

\* doLoginWithoutLocalServer(scopes, nonce, callbackUri) is called: the nonce
\* is registered, then the call awaits getRedirectEndpoint().
Start(a, s) ==
    /\ flow = "redirect"
    /\ att[a].pc = "idle"
    /\ \A b \in Attempts : b < a => att[b].pc # "idle"
    /\ a = 1 => s = "s1"               \* the scope strings are interchangeable
    /\ pendingNonces' = Registered(pendingNonces, s, Nonce(a))
    /\ att' = [att EXCEPT ![a].pc = "endpoint", ![a].scope = s]
    /\ UNCHANGED <<codeExchangePromises, prom, timer, accepted, delivered, ended>>
    /\ UNCHANGED notRedirVars

\* getRedirectEndpoint() returns: the call awaits env.openExternal(uri).
EndpointReturns(a) ==
    /\ att[a].pc = "endpoint"
    /\ att' = [att EXCEPT ![a].pc = "browser"]
    /\ UNCHANGED <<pendingNonces, codeExchangePromises, prom, timer, accepted,
                   delivered, ended>>
    /\ UNCHANGED notRedirVars

\* getRedirectEndpoint() throws (fetching or executeCommand rejects): the
\* call ends before its try block.
EndpointThrows(a) ==
    /\ att[a].pc = "endpoint"
    /\ att' = [att EXCEPT ![a].pc = "done", ![a].outcome = Failure("endpoint error")]
    /\ ended' = [ended EXCEPT ![a] = @ + 1]
    /\ UNCHANGED <<pendingNonces, codeExchangePromises, prom, timer, accepted, delivered>>
    /\ UNCHANGED notRedirVars

\* env.openExternal returns: the listener of the scope string is fetched or
\* made, and the race starts.
BrowserOpens(a) ==
    /\ att[a].pc = "browser"
    /\ LET s == att[a].scope
       IN IF codeExchangePromises[s] = 0
          THEN /\ prom' = [prom EXCEPT ![a] = [st |-> "pending", scope |-> s,
                              code |-> "", sub |-> TRUE, val |-> NoResult]]
               /\ codeExchangePromises' = [codeExchangePromises EXCEPT ![s] = a]
               /\ att' = [att EXCEPT ![a].pc = "race", ![a].p = a]
          ELSE /\ att' = [att EXCEPT ![a].pc = "race", ![a].p = codeExchangePromises[s]]
               /\ UNCHANGED <<prom, codeExchangePromises>>
    /\ timer' = [timer EXCEPT ![a] = "armed"]
    /\ UNCHANGED <<pendingNonces, accepted, delivered, ended>>
    /\ UNCHANGED notRedirVars

\* env.openExternal rejects: the call ends before its try block.
BrowserThrows(a) ==
    /\ att[a].pc = "browser"
    /\ att' = [att EXCEPT ![a].pc = "done", ![a].outcome = Failure("openExternal error")]
    /\ ended' = [ended EXCEPT ![a] = @ + 1]
    /\ UNCHANGED <<pendingNonces, codeExchangePromises, prom, timer, accepted, delivered>>
    /\ UNCHANGED notRedirVars

\* The URI handler fires: every subscribed listener runs handleUri(scopes);
\* the calls whose promise was rejected end in the same turn.
Deliver(uri) ==
    /\ flow = "redirect"
    /\ delivered < MaxCallbacks
    /\ uri.code \in {"", CodeNames[delivered + 1]}
    /\ delivered' = delivered + 1
    /\ LET does(p) == HandleUri(pendingNonces, prom[p].scope, uri)
           newProm == [p \in Attempts |->
                          IF ~prom[p].sub THEN prom[p]
                          ELSE CASE does(p) = "rejectNoCode" -> Rejected(prom[p], "No code")
                                 [] does(p) = "rejectNoNonce" -> Rejected(prom[p], "No nonce")
                                 [] does(p) = "ignore" -> prom[p]
                                 [] does(p) = "resolveExchange" -> Resolved(prom[p], uri)]
           E == {a \in Attempts : att[a].pc = "race" /\ newProm[att[a].p].st = "rejected"}
           I == {a \in Attempts : /\ att[a].pc = "race"
                                   /\ prom[att[a].p].st = "pending"
                                   /\ prom[att[a].p].sub
                                   /\ does(att[a].p) = "ignore"}
           G == {a \in Attempts : /\ att[a].pc = "race"
                                   /\ prom[att[a].p].st = "pending"
                                   /\ prom[att[a].p].sub
                                   /\ does(att[a].p) = "resolveExchange"
                                   /\ uri.nonce = Nonce(a)}
       IN /\ EndCalls(E, 0, NoResult, newProm, I, G)
          /\ accepted' = [a \in Attempts |->
                            IF /\ uri.nonce = Nonce(a)
                               /\ \E p \in Attempts :
                                     prom[p].sub /\ does(p) = "resolveExchange"
                            THEN accepted[a] + 1 ELSE accepted[a]]
    /\ UNCHANGED timer
    /\ UNCHANGED notRedirVars

\* exchangeCodeForToken(code) returns the access token: the promise is fulfilled.
ExchangeReturns(p) ==
    /\ prom[p].st = "locked"
    /\ LET newProm == [prom EXCEPT ![p].st = "fulfilled", ![p].sub = FALSE,
                                   ![p].val = Token(prom[p].code)]
       IN EndCalls(Racers(p), 0, NoResult, newProm, {}, {})
    /\ UNCHANGED <<timer, accepted, delivered>>
    /\ UNCHANGED notRedirVars

\* exchangeCodeForToken(code) throws GitHubTokenExchangeError.
ExchangeThrows(p) ==
    /\ prom[p].st = "locked"
    /\ LET newProm == [prom EXCEPT ![p].st = "rejected", ![p].sub = FALSE,
                                   ![p].val = Failure("GitHubTokenExchangeError")]
       IN EndCalls(Racers(p), 0, NoResult, newProm, {}, {})
    /\ UNCHANGED <<timer, accepted, delivered>>
    /\ UNCHANGED notRedirVars

\* Call a loses its race to source o: its finally block fires cancel on the
\* promise it holds, which ends the other calls that wait for that promise.
Abandon(a, o) ==
    LET p == att[a].p
        newProm == [prom EXCEPT ![p] = CancelFired(prom[p])]
        E == {a} \cup {b \in Racers(p) : newProm[p].st = "rejected"}
    IN EndCalls(E, a, o, newProm, {}, {})

\* setTimeout(() => reject('Timed out'), 300_000) fires; the timer is never
\* cleared, so it also fires after the call has ended.
TimerFires(a) ==
    /\ timer[a] = "armed"
    /\ timer' = [timer EXCEPT ![a] = "off"]
    /\ IF att[a].pc = "race"
       THEN Abandon(a, Failure("Timed out"))
       ELSE /\ att' = [att EXCEPT ![a] = RaceSettled(a, Failure("Timed out"))]
            /\ UNCHANGED <<pendingNonces, codeExchangePromises, prom, ended>>
    /\ UNCHANGED <<accepted, delivered>>
    /\ UNCHANGED notRedirVars

\* The user cancels the progress notification of call a.
CancelRequested(a) ==
    /\ att[a].pc = "race"
    /\ Abandon(a, Failure("User Cancelled"))
    /\ UNCHANGED <<timer, accepted, delivered>>
    /\ UNCHANGED notRedirVars

RedirectNext ==
    \/ \E a \in Attempts, s \in Scopes : Start(a, s)
    \/ \E a \in Attempts : EndpointReturns(a)
    \/ \E a \in Attempts : EndpointThrows(a)
    \/ \E a \in Attempts : BrowserOpens(a)
    \/ \E a \in Attempts : BrowserThrows(a)
    \/ \E uri \in Uris : Deliver(uri)
    \/ \E p \in Attempts : ExchangeReturns(p)
    \/ \E p \in Attempts : ExchangeThrows(p)
    \/ \E a \in Attempts : TimerFires(a)
    \/ \E a \in Attempts : CancelRequested(a)

\* ---------------------------------------------------- the local server flow
\* The delay of the timer that stops the loopback server: 5000 ms.
StopDelaySeconds == 5

\* doLoginWithLocalServer(scopes) is called: it awaits getRedirectEndpoint().
LsCall ==
    /\ flow = "local"
    /\ ls.pc = "idle"
    /\ ls' = [ls EXCEPT !.pc = "endpoint"]
    /\ UNCHANGED <<stopClock, notLocalVars>>

\* getRedirectEndpoint() returns: new LoopbackAuthServer, await server.start().
LsEndpointReturns ==
    /\ ls.pc = "endpoint"
    /\ ls' = [ls EXCEPT !.pc = "starting"]
    /\ UNCHANGED <<stopClock, notLocalVars>>

LsEndpointThrows ==
    /\ ls.pc = "endpoint"
    /\ ls' = [ls EXCEPT !.pc = "done", !.outcome = Failure("endpoint error")]
    /\ UNCHANGED <<stopClock, notLocalVars>>

\* server.start() returns the port: the browser is opened and the race starts.
LsServerStarts ==
    /\ ls.pc = "starting"
    /\ ls' = [ls EXCEPT !.pc = "race", !.server = "listening", !.timer = "armed"]
    /\ UNCHANGED <<stopClock, notLocalVars>>

LsServerStartThrows ==
    /\ ls.pc = "starting"
    /\ ls' = [ls EXCEPT !.pc = "done", !.outcome = Failure("server start error")]
    /\ UNCHANGED <<stopClock, notLocalVars>>

\* Promise.race of doLoginWithLocalServer settles once; its finally block
\* schedules server.stop().
LsRaceLost(o) ==
    IF ls.pc = "race"
    THEN [ls EXCEPT !.pc = "done", !.outcome = o, !.server = "stopping"]
    ELSE ls

\* server.waitForOAuthResponse() resolves with the code of the redirect:
\* codeToExchange = code, then await this.exchangeCodeForToken(codeToExchange).
LsOAuthResponse(c) ==
    /\ ls.pc = "race"
    /\ ls' = [ls EXCEPT !.pc = "exchange", !.code = c, !.server = "stopping"]
    /\ UNCHANGED <<stopClock, notLocalVars>>

\* setTimeout(() => reject('Timed out'), 300_000) fires; it is never cleared.
LsTimerFires ==
    /\ ls.timer = "armed"
    /\ ls' = [LsRaceLost(Failure("Timed out")) EXCEPT !.timer = "off"]
    /\ UNCHANGED <<stopClock, notLocalVars>>

\* The user cancels the progress notification, which is shown until the
\* call ends.
LsCancelRequested ==
    /\ ls.pc \in {"race", "exchange"}
    /\ ~ls.cancelled
    /\ ls' = [LsRaceLost(Failure("User Cancelled")) EXCEPT !.cancelled = TRUE]
    /\ UNCHANGED <<stopClock, notLocalVars>>

LsExchangeReturns ==
    /\ ls.pc = "exchange"
    /\ ls' = [ls EXCEPT !.pc = "done", !.outcome = Token(ls.code)]
    /\ UNCHANGED <<stopClock, notLocalVars>>

LsExchangeThrows ==
    /\ ls.pc = "exchange"
    /\ ls' = [ls EXCEPT !.pc = "done", !.outcome = Failure("GitHubTokenExchangeError")]
    /\ UNCHANGED <<stopClock, notLocalVars>>

\* A second passes while the timer of server.stop() is pending.
LsSecondPasses ==
    /\ ls.server = "stopping"
    /\ stopClock < StopDelaySeconds
    /\ stopClock' = stopClock + 1
    /\ UNCHANGED <<ls, notLocalVars>>

\* setTimeout(() => { void server.stop(); }, 5000) fires: not before its delay.
LsStopFiresEarly ==
    /\ ls.server = "stopping"
    /\ ls' = [ls EXCEPT !.server = "stopped"]
    /\ UNCHANGED <<stopClock, notLocalVars>>
LsStopFires ==
    /\ ls.server = "stopping"
    /\ stopClock >= StopDelaySeconds
    /\ ls' = [ls EXCEPT !.server = "stopped"]
    /\ UNCHANGED <<stopClock, notLocalVars>>

LocalNext ==
    \/ LsCall
    \/ LsEndpointReturns
    \/ LsEndpointThrows
    \/ LsServerStarts
    \/ LsServerStartThrows
    \/ \E c \in Codes : LsOAuthResponse(c)
    \/ LsTimerFires
    \/ LsCancelRequested
    \/ LsExchangeReturns
    \/ LsExchangeThrows
    \/ LsSecondPasses
    \/ LsStopFires

\* ------------------------------------------------ device code polling
\* const attempts = 120 / json.interval: the window of the polling in seconds.
PollWindowSeconds == 120

\* json.interval of the device code response (seconds, positive).
Intervals == {1, 5, 7, 45, 120, 121}

\* json.interval when the response has none: undefined.
UndefinedInterval == -1

\* Every json.interval: positive, 0 or undefined.
AnyIntervals == Intervals \cup {0, UndefinedInterval}

IntervalsOf(f) == IF f = "deviceAny" THEN AnyIntervals ELSE Intervals

\* i < attempts, where attempts is the quotient 120 / interval of two
\* numbers (not an integer division): for a positive interval, i < 120 / interval
\* exactly when i * interval < 120; 120 / 0 is Infinity and 120 / undefined
\* is NaN, which no number is less than.
LoopHoldsInclusive(i, interval) ==
    CASE interval = UndefinedInterval -> FALSE
      [] interval = 0 -> TRUE
      [] OTHER -> i * interval <= PollWindowSeconds
LoopHolds(i, interval) ==
    CASE interval = UndefinedInterval -> FALSE
      [] interval = 0 -> TRUE
      [] OTHER -> i * interval < PollWindowSeconds

\* i++ and the count of requests: a loop that never ends is followed up to
\* MaxPolls iterations, after which the counters stay (a loop with a
\* positive interval ends before).
Incr(n) == IF n < MaxPolls THEN n + 1 ELSE n

\* What a token request ends with: fetching throws, or a response with its
\* ok flag and the error, error_description and access_token of its body
\* ("" stands for undefined).
NetworkException ==
    [kind |-> "exception", ok |-> FALSE, error |-> "", error_description |-> "",
     access_token |-> ""]
Response(ok, e) ==
    [kind |-> "response", ok |-> ok, error |-> e,
     error_description |-> IF e = "" THEN "" ELSE "description of " \o e,
     access_token |-> IF e = "" THEN "gho_token" ELSE ""]
PollErrors == {"", "authorization_pending", "access_denied"}
PollResponses ==
    {NetworkException} \cup {Response(ok, e) : ok \in BOOLEAN, e \in PollErrors}

\* The body of the loop after the request (lines 152-178): continue, throw
\* or return.
PollStepPendingDenied(r) ==
    IF r.kind = "exception" THEN [t |-> "continue", v |-> ""]
    ELSE IF ~r.ok THEN [t |-> "continue", v |-> ""]
    ELSE IF r.error # "" THEN [t |-> "throw", v |-> r.error_description]
    ELSE [t |-> "return", v |-> r.access_token]
PollStep(r) ==
    IF r.kind = "exception" THEN [t |-> "continue", v |-> ""]
    ELSE IF ~r.ok THEN [t |-> "continue", v |-> ""]
    ELSE IF r.error = "authorization_pending" THEN [t |-> "continue", v |-> ""]
    ELSE IF r.error # "" THEN [t |-> "throw", v |-> r.error_description]
    ELSE [t |-> "return", v |-> r.access_token]

\* if (token.isCancellationRequested) after the wait of an iteration.
CancellationSeenNever(requested) == FALSE
CancellationSeen(requested) == requested

NoDc ==
    [pc |-> "idle", interval |-> 0, i |-> 0, requests |-> 0, waited |-> 0,
     cancel |-> FALSE, onlyPending |-> TRUE, last |-> NetworkException,
     outcome |-> NoResult]

DeviceIdle == dc = NoDc

\* waitForDeviceCodeAccessToken(json) is called: the loop is entered and the
\* first wait starts.
DcStart(interval) ==
    /\ flow \in {"device", "deviceAny"}
    /\ interval \in IntervalsOf(flow)
    /\ dc.pc = "idle"
    /\ dc' = IF LoopHolds(0, interval)
             THEN [dc EXCEPT !.pc = "wait", !.interval = interval]
             ELSE [dc EXCEPT !.pc = "done", !.interval = interval,
                             !.outcome = Failure("Cancelled")]
    /\ UNCHANGED notDeviceVars

\* The wait of json.interval seconds is over: the cancellation is checked,
\* then the token request is issued.
DcTick ==
    /\ dc.pc = "wait"
    /\ dc' = IF CancellationSeen(dc.cancel)
             THEN [dc EXCEPT !.pc = "done", !.waited = @ + dc.interval,
                             !.outcome = Failure("User Cancelled")]
             ELSE [dc EXCEPT !.pc = "request", !.waited = @ + dc.interval,
                             !.requests = Incr(@)]
    /\ UNCHANGED notDeviceVars

\* The token request ends with r: the rest of the loop body runs, and after
\* a continue the loop condition of the next iteration.
DcResponse(r) ==
    /\ dc.pc = "request"
    /\ LET step == PollStep(r)
           seen == [dc EXCEPT !.last = r,
                              !.onlyPending =
                                  @ /\ r = Response(TRUE, "authorization_pending")]
       IN dc' = CASE step.t = "throw" ->
                      [seen EXCEPT !.pc = "done", !.outcome = Failure(step.v)]
                  [] step.t = "return" ->
                      [seen EXCEPT !.pc = "done", !.outcome = Token(step.v)]
                  [] step.t = "continue" ->
                      IF LoopHolds(Incr(dc.i), dc.interval)
                      THEN [seen EXCEPT !.pc = "wait", !.i = Incr(@)]
                      ELSE [seen EXCEPT !.pc = "done", !.i = Incr(@),
                                        !.outcome = Failure("Cancelled")]
    /\ UNCHANGED notDeviceVars

\* The user cancels the progress notification, which is shown until the
\* call ends.
DcCancelRequested ==
    /\ dc.pc \in {"wait", "request"}
    /\ ~dc.cancel
    /\ dc' = [dc EXCEPT !.cancel = TRUE]
    /\ UNCHANGED notDeviceVars

DeviceNext ==
    \/ \E interval \in AnyIntervals : DcStart(interval)
    \/ DcTick
    \/ \E r \in PollResponses : DcResponse(r)
    \/ DcCancelRequested

\* ------------------------------------------------------ the code exchange
\* this._type = _ghesUri ? AuthProviderType.githubEnterprise
\*                        : AuthProviderType.github ("" stands for undefined).
AuthProviderTypeGitHub(ghesUri) == "github"
AuthProviderTypeOf(ghesUri) ==
    IF ghesUri # "" THEN "githubEnterprise" ELSE "github"

GhesUris == {"", "https://ghe.example.com"}

\* proxyEndpoints?.github of workbench.getCodeExchangeProxyEndpoints.
ProxyEndpoints == {"", "https://proxy.example/"}

\* endpointUrl of the token request.
EndpointUrl(proxy) ==
    IF proxy # "" THEN proxy \o "login/oauth/access_token"
    ELSE "https://github.com/login/oauth/access_token"

\* The answer of the /meta endpoint: result.ok and the installed_version of
\* its body (NoVersion: the body has none or is not JSON).
V_3_8_0 == <<"3", ".", "8", ".", "0">>
V_3_7_9 == <<"3", ".", "7", ".", "9">>
MetaAnswers ==
    {[ok |-> TRUE, installed_version |-> v] :
        v \in Versions \cup {V_3_8_0, V_3_7_9, NoVersion}}
    \cup {[ok |-> FALSE, installed_version |-> NoVersion]}
NoMeta == [ok |-> FALSE, installed_version |-> <<"not asked">>]

\* this._redirectEndpoint after the if (result.ok) block of getRedirectEndpoint
\* ("" stands for undefined): Number(majorStr), Number(minorStr), where the
\* Number of a missing part is NaN and a missing installed_version throws
\* into the catch.
AfterVersionCheck(meta) ==
    IF /\ meta.ok
       /\ meta.installed_version # NoVersion
       /\ LET parts == Split(meta.installed_version)
              major == Num(parts[1])
          IN \/ major >= 4
             \/ major = 3 /\ Len(parts) >= 2 /\ Num(parts[2]) >= 8
    THEN "https://vscode.dev/redirect"
    ELSE ""

\* The assignment after the block.
GhesRedirectEndpoint == "https://vscode-auth.github.com/"

\* What getRedirectEndpoint() returns on a GitHub Enterprise server whose
\* endpoint is not cached: the last value assigned to this._redirectEndpoint.
GetRedirectEndpointGhes(meta) ==
    LET assigned == <<AfterVersionCheck(meta), GhesRedirectEndpoint>>
    IN assigned[Len(assigned)]

\* The response of the token endpoint: result.ok, result.text() and the
\* access_token of result.json() ("" stands for undefined).
ExchangeResponses ==
    { [ok |-> TRUE, text |-> "json", access_token |-> "gho_token"],
      [ok |-> TRUE, text |-> "json", access_token |-> ""],
      [ok |-> FALSE, text |-> "bad_verification_code", access_token |-> ""],
      [ok |-> FALSE, text |-> "Not Found", access_token |-> ""],
      [ok |-> FALSE, text |-> "", access_token |-> ""] }

NoResponse == [ok |-> FALSE, text |-> "no response", access_token |-> ""]
NoOutcome == [kind |-> "none", name |-> "", v |-> ""]
Returned(v) == [kind |-> "token", name |-> "", v |-> v]
ThrownError(name, message) == [kind |-> "error", name |-> name, v |-> message]

\* if (result.ok) return json.access_token; else throw the Error of the text,
\* named GitHubTokenExchangeError.
ExchangeResultUnnamed(r) ==
    IF r.ok THEN Returned(r.access_token) ELSE ThrownError("Error", r.text)
ExchangeResult(r) ==
    IF r.ok THEN Returned(r.access_token)
    ELSE ThrownError("GitHubTokenExchangeError", r.text)

NoXc ==
    [pc |-> "idle", ghesUri |-> "", type |-> "github", code |-> "", url |-> "",
     body |-> <<>>, sent |-> FALSE, response |-> NoResponse, outcome |-> NoOutcome,
     redirectEndpoint |-> "", meta |-> NoMeta, calls |-> 0]

\* The constructor of the server object.
ExchangeIdle ==
    \E u \in GhesUris :
        xc = [NoXc EXCEPT !.ghesUri = u, !.type = AuthProviderTypeOf(u)]

\* exchangeCodeForToken(code) is called: it awaits the proxy endpoints.
XcCall(code) ==
    /\ flow = "exchange"
    /\ xc.pc \in {"idle", "done"}
    /\ xc.calls < MaxExchanges
    /\ xc' = [xc EXCEPT !.pc = "proxy", !.code = code, !.url = "", !.body = <<>>,
                        !.sent = FALSE, !.response = NoResponse,
                        !.outcome = NoOutcome, !.calls = @ + 1]
    /\ UNCHANGED notExchangeVars

\* The proxy endpoints are known: the body is built from the code, and on an
\* enterprise server github_enterprise is appended and getRedirectEndpoint()
\* awaited; on github.com the request is issued.
XcProxyReturns(proxy) ==
    /\ xc.pc = "proxy"
    /\ LET body == << <<"code", xc.code>> >>
       IN xc' = IF xc.type = "githubEnterprise"
                THEN [xc EXCEPT !.pc = "endpoint", !.url = EndpointUrl(proxy),
                                !.body = Append(body,
                                           <<"github_enterprise", xc.ghesUri>>)]
                ELSE [xc EXCEPT !.pc = "fetch", !.url = EndpointUrl(proxy),
                                !.body = body, !.sent = TRUE]
    /\ UNCHANGED notExchangeVars

\* getRedirectEndpoint() returns this._redirectEndpoint, which it sets when
\* it is not set yet: redirect_uri is appended and the request is issued.
XcEndpointReturns(meta) ==
    /\ xc.pc = "endpoint"
    /\ IF xc.redirectEndpoint # ""
       THEN /\ meta = xc.meta
            /\ xc' = [xc EXCEPT !.pc = "fetch", !.sent = TRUE,
                                !.body = Append(@, <<"redirect_uri", xc.redirectEndpoint>>)]
       ELSE LET endpoint == GetRedirectEndpointGhes(meta)
            IN xc' = [xc EXCEPT !.pc = "fetch", !.sent = TRUE, !.meta = meta,
                                !.redirectEndpoint = endpoint,
                                !.body = Append(@, <<"redirect_uri", endpoint>>)]
    /\ UNCHANGED notExchangeVars

\* getRedirectEndpoint() throws (fetching the /meta endpoint failed).
XcEndpointThrows ==
    /\ xc.pc = "endpoint"
    /\ xc.redirectEndpoint = ""
    /\ xc' = [xc EXCEPT !.pc = "done", !.outcome = ThrownError("Error", "fetch failed")]
    /\ UNCHANGED notExchangeVars

\* fetching(endpointUrl, ...) throws.
XcFetchThrows ==
    /\ xc.pc = "fetch"
    /\ xc' = [xc EXCEPT !.pc = "done", !.outcome = ThrownError("Error", "fetch failed")]
    /\ UNCHANGED notExchangeVars

\* The token endpoint answers.
XcResponse(r) ==
    /\ xc.pc = "fetch"
    /\ xc' = [xc EXCEPT !.pc = "done", !.response = r, !.outcome = ExchangeResult(r)]
    /\ UNCHANGED notExchangeVars

ExchangeNext ==
    \/ \E code \in Codes : XcCall(code)
    \/ \E proxy \in ProxyEndpoints : XcProxyReturns(proxy)
    \/ \E meta \in MetaAnswers : XcEndpointReturns(meta)
    \/ XcEndpointThrows
    \/ XcFetchThrows
    \/ \E r \in ExchangeResponses : XcResponse(r)

\* ------------------------------------------- the personal access token
\* A string is a sequence of words and separators: s.split(sep).
RECURSIVE SplitAt(_, _, _, _)
SplitAt(s, sep, cur, acc) ==
    IF s = <<>> THEN Append(acc, cur)
    ELSE IF Head(s) = sep THEN SplitAt(Tail(s), sep, <<>>, Append(acc, cur))
    ELSE SplitAt(Tail(s), sep, Append(cur, Head(s)), acc)

\* The scopes argument of doLoginWithPat.
ScopeStrings ==
    { <<"repo">>,
      <<"read", ":", "user">>,
      <<"read", ":", "user", " ", "repo">>,
      <<"repo", " ", "user", ":", "email">>,
      <<"repo", " ", " ", "user">>,
      <<>> }

\* What getScopes(token, ...) can return: the scopes of the token.
TokenScopeNames == { <<"repo">>, <<"user">>, <<"read">>, <<"read", ":", "user">> }

\* The callback of scopesList.every(...).
ScopeIncludedExactly(tokenScopes, scope) == scope \in tokenScopes
ScopeIncluded(tokenScopes, scope) ==
    LET included == scope \in tokenScopes
    IN IF included \/ ~InSeq(":", scope) THEN included
       ELSE LET parts == SplitAt(scope, ":", <<>>, <<>>)
            IN \E k \in DOMAIN parts : parts[k] \in tokenScopes

\* scopes.split(' ').every(...)
ScopesMatch(tokenScopes, scopes) ==
    LET scopesList == SplitAt(scopes, " ", <<>>, <<>>)
    IN \A k \in DOMAIN scopesList : ScopeIncluded(tokenScopes, scopesList[k])

ScopeMismatch == "The provided token does not match the requested scopes"

NoPat ==
    [pc |-> "idle", scopes |-> <<>>, token |-> "", tokenScopes |-> {},
     checked |-> FALSE, outcome |-> NoResult]

\* doLoginWithPat(scopes) is called: the modal message is shown.
PatCall(scopes) ==
    /\ flow = "pat"
    /\ pat.pc = "idle"
    /\ pat' = [pat EXCEPT !.pc = "modal", !.scopes = scopes]
    /\ UNCHANGED notPatVars

\* The modal is answered: anything but the button throws 'User Cancelled',
\* the button opens the browser and the input box.
PatModalAnswered(button) ==
    /\ pat.pc = "modal"
    /\ pat' = IF button THEN [pat EXCEPT !.pc = "input"]
              ELSE [pat EXCEPT !.pc = "done", !.outcome = Failure("User Cancelled")]
    /\ UNCHANGED notPatVars

\* The input box returns ("" stands for undefined and for the empty string):
\* if (!token) throw 'User Cancelled', else await getScopes(token, ...).
PatTokenEntered(token) ==
    /\ pat.pc = "input"
    /\ pat' = IF token = ""
              THEN [pat EXCEPT !.pc = "done", !.outcome = Failure("User Cancelled")]
              ELSE [pat EXCEPT !.pc = "getScopes", !.token = token]
    /\ UNCHANGED notPatVars

\* getScopes returns the scopes of the token: the requested scopes are
\* checked against them.
PatGetScopesReturns(tokenScopes) ==
    /\ pat.pc = "getScopes"
    /\ pat' = [pat EXCEPT !.pc = "done", !.tokenScopes = tokenScopes, !.checked = TRUE,
                          !.outcome = IF ScopesMatch(tokenScopes, pat.scopes)
                                      THEN Token(pat.token)
                                      ELSE Failure(ScopeMismatch)]
    /\ UNCHANGED notPatVars

\* getScopes throws.
PatGetScopesThrows ==
    /\ pat.pc = "getScopes"
    /\ pat' = [pat EXCEPT !.pc = "done", !.outcome = Failure("network error")]
    /\ UNCHANGED notPatVars

PatNext ==
    \/ \E scopes \in ScopeStrings : PatCall(scopes)
    \/ \E button \in BOOLEAN : PatModalAnswered(button)
    \/ \E token \in {"", "ghp_1a2b3c4"} : PatTokenEntered(token)
    \/ \E tokenScopes \in SUBSET TokenScopeNames : PatGetScopesReturns(tokenScopes)
    \/ PatGetScopesThrows

\* ------------------------------------------------------------ the watermark
WorkbenchStates == {"EMPTY", "FOLDER", "WORKSPACE"}

\* The contribution is not constructed.
NoWm ==
    [pc |-> "none", config |-> TRUE, state |-> "EMPTY", ctx |-> FALSE, otherCtx |-> FALSE,
     enabled |-> FALSE, workbenchState |-> "EMPTY", watermark |-> "undefined",
     attached |-> 0, hasClass |-> FALSE, listeners |-> FALSE, shown |-> <<>>]

\* create(): the container gets the class, this.watermark is a new element
\* with the entries selected by the workbench state and the context, it is
\* prepended to the editor part and the listeners are added.
Create(w) ==
    [w EXCEPT !.hasClass = TRUE,
              !.watermark = "attached",
              !.attached = w.attached + 1,
              !.listeners = TRUE,
              !.shown = <<w.workbenchState # "EMPTY", w.ctx>>]

\* destroy(): if (this.watermark) the element is removed, the class is
\* removed and the listeners are cleared; this.watermark keeps the element.
Destroy(w) ==
    IF w.watermark # "undefined"
    THEN [w EXCEPT !.watermark = "removed",
                   !.attached = IF w.watermark = "attached" THEN w.attached - 1
                                ELSE w.attached,
                   !.hasClass = FALSE,
                   !.listeners = FALSE]
    ELSE w

Recreate(w) == Create(Destroy(w))

\* The constructor: the fields are read, the listeners are registered and
\* the watermark is created if the tips are enabled.
Constructed(config, state, ctx) ==
    LET w == [NoWm EXCEPT !.pc = "live", !.config = config, !.state = state,
                          !.ctx = ctx, !.workbenchState = state, !.enabled = config]
    IN IF w.enabled THEN Create(w) ELSE w

\* The number of watermark elements in the editor part is kept within the bound.
CanCreate(w) == Destroy(w).attached < MaxWatermarks

\* workbench.tips.enabled is set to v: the configuration listener.
WmConfigurationChanged(v) ==
    /\ flow = "watermark"
    /\ wm.pc = "live"
    /\ v => wm.attached < MaxWatermarks
    /\ LET w == [wm EXCEPT !.config = v]
       IN wm' = IF v # w.enabled
                THEN IF v THEN Create([w EXCEPT !.enabled = v])
                     ELSE Destroy([w EXCEPT !.enabled = v])
                ELSE w
    /\ UNCHANGED notWatermarkVars

\* The workbench state changes to s: the workbench-state listener.
WmWorkbenchStateChanged(s) ==
    /\ flow = "watermark"
    /\ wm.pc = "live"
    /\ s # wm.state
    /\ CanCreate(wm)
    /\ LET w == [wm EXCEPT !.state = s, !.workbenchState = s]
       IN wm' = IF wm.enabled /\ s # wm.workbenchState THEN Recreate(w) ELSE w
    /\ UNCHANGED notWatermarkVars

\* A context key changes: the context-key listener. The key is one of the
\* keys of the entries' when clauses (affects) or another key.
WmContextChanged(affects) ==
    /\ flow = "watermark"
    /\ wm.pc = "live"
    /\ CanCreate(wm)
    /\ wm' = IF affects THEN Recreate([wm EXCEPT !.ctx = ~wm.ctx])
             ELSE [wm EXCEPT !.otherCtx = ~wm.otherCtx]
    /\ UNCHANGED notWatermarkVars

WatermarkNext ==
    \/ \E v \in BOOLEAN : WmConfigurationChanged(v)
    \/ \E s \in WorkbenchStates : WmWorkbenchStateChanged(s)
    \/ \E affects \in BOOLEAN : WmContextChanged(affects)

\* ------------------------------------------------------------ the tab focus
\* The values of the setting and of _tabFocus: getValue(settingId) is
\* undefined when the setting has no value.
Modes == {"true", "false", "undefined"}

\* !oldValue
Not(v) == IF v = "true" THEN "false" ELSE "true"

\* The object is not constructed.
NoTf == [pc |-> "none", config |-> "undefined", tabFocus |-> "undefined",
         events |-> <<>>, calls |-> 0]

\* setTabFocusMode(tabFocusMode) on the object t.
SetTabFocusModeAlways(t, tabFocusMode) ==
    [t EXCEPT !.tabFocus = tabFocusMode,
              !.events = Append(t.events, tabFocusMode),
              !.calls = t.calls + 1]
SetTabFocusMode(t, tabFocusMode) ==
    IF t.tabFocus = tabFocusMode
    THEN [t EXCEPT !.calls = t.calls + 1]
    ELSE [t EXCEPT !.tabFocus = tabFocusMode,
                   !.events = Append(t.events, tabFocusMode),
                   !.calls = t.calls + 1]

\* The constructor: _tabFocus is the value of the setting, and it is fired.
TfConstructed(config) ==
    [NoTf EXCEPT !.pc = "live", !.config = config, !.tabFocus = config,
                 !.events = <<config>>]

\* A caller sets the mode.
TfSetTabFocusMode(v) ==
    /\ flow = "tabFocus"
    /\ tf.pc = "live"
    /\ tf.calls < MaxTabCalls
    /\ tf' = SetTabFocusMode(tf, v)
    /\ UNCHANGED notTabFocusVars

\* The setting changes to v: the configuration listener.
TfConfigurationChanged(v) ==
    /\ flow = "tabFocus"
    /\ tf.pc = "live"
    /\ tf.calls < MaxTabCalls
    /\ tf' = SetTabFocusMode([tf EXCEPT !.config = v], v)
    /\ UNCHANGED notTabFocusVars

\* ToggleTabFocusModeAction.run
TfToggle ==
    /\ flow = "tabFocus"
    /\ tf.pc = "live"
    /\ tf.calls < MaxTabCalls
    /\ LET oldValue == tf.tabFocus
           newValue == Not(oldValue)
       IN tf' = SetTabFocusMode(tf, newValue)
    /\ UNCHANGED notTabFocusVars

TabFocusNext ==
    \/ \E v \in {"true", "false"} : TfSetTabFocusMode(v)
    \/ \E v \in Modes : TfConfigurationChanged(v)
    \/ TfToggle

\* --------------------------------------------------- the inline completions
\* registry.all(model), in its order.
Providers == <<"first", "second">>

Range(sl, sc, el, ec) ==
    [startLineNumber |-> sl, startColumn |-> sc, endLineNumber |-> el, endColumn |-> ec]

\* An item without a range.
NoRange == Range(0, 0, 0, 0)

\* getDefaultRange(position, model)
DefaultReplaceRange == Range(1, 1, 1, 4)

\* The ranges and the items that a provider can give.
ItemRanges == {NoRange, DefaultReplaceRange, Range(1, 1, 1, 5)}
ProviderItems == [insertText : {"foo", "bar"}, range : ItemRanges]

RECURSIVE ItemLists(_)
ItemLists(n) ==
    IF n = 0 THEN { <<>> }
    ELSE ItemLists(n - 1) \cup
         { Append(l, item) : l \in { x \in ItemLists(n - 1) : Len(x) = n - 1 },
                             item \in ProviderItems }

\* Range.toString()
RangeToString(range) ==
    <<"[", range.startLineNumber, ",", range.startColumn, " -> ",
      range.endLineNumber, ",", range.endColumn, "]">>

\* InlineCompletionItem.from for an item with a string insertText and
\* without completeBracketPairs.
From(inlineCompletion, sourceProvider) ==
    [insertText |-> inlineCompletion.insertText,
     range |-> IF inlineCompletion.range # NoRange THEN inlineCompletion.range
               ELSE DefaultReplaceRange,
     sourceProvider |-> sourceProvider]

\* InlineCompletionItem.hash(): JSON.stringify of the text and the range string.
HashTextOnly(item) == <<"{insertText:", item.insertText, "}">>
Hash(item) ==
    <<"{insertText:", item.insertText, ",range:">> \o RangeToString(item.range) \o <<"}">>

\* Map.set(key, value) on a map kept as the sequence of its entries: an
\* existing key keeps its place and takes the value, a new key goes last.
MapSet(map, key, value) ==
    IF \E k \in DOMAIN map : map[k][1] = key
    THEN [k \in DOMAIN map |-> IF map[k][1] = key THEN <<key, value>> ELSE map[k]]
    ELSE Append(map, <<key, value>>)

\* for (const item of completions.items) itemsByHash.set(item.hash(), item)
RECURSIVE AddItems(_, _, _)
AddItems(itemsByHash, items, provider) ==
    IF items = <<>> THEN itemsByHash
    ELSE LET inlineCompletionItem == From(Head(items), provider)
         IN AddItems(MapSet(itemsByHash, Hash(inlineCompletionItem), inlineCompletionItem),
                     Tail(items), provider)

\* for (const result of providerResults), from the k-th result on.
RECURSIVE Collect(_, _, _)
Collect(itemsByHash, providerResults, k) ==
    IF k > Len(providerResults) THEN itemsByHash
    ELSE IF providerResults[k].st # "completions"
         THEN Collect(itemsByHash, providerResults, k + 1)
         ELSE Collect(AddItems(itemsByHash, providerResults[k].items, Providers[k]),
                      providerResults, k + 1)

\* Array.from(itemsByHash.values())
Values(map) == [k \in DOMAIN map |-> map[k][2]]

PendingResult == [st |-> "pending", items |-> <<>>]

NoIc ==
    [pc |-> "idle", providerResults |-> [k \in DOMAIN Providers |-> PendingResult],
     completions |-> <<>>, resultMap |-> {}]

\* provideInlineCompletions is called: every provider is asked.
IcCall ==
    /\ flow = "inline"
    /\ ic.pc = "idle"
    /\ ic' = [ic EXCEPT !.pc = "awaiting"]
    /\ UNCHANGED notInlineVars

\* The k-th provider answers with a list of items.
IcProviderAnswers(k, items) ==
    /\ ic.pc = "awaiting"
    /\ ic.providerResults[k].st = "pending"
    /\ ic' = [ic EXCEPT !.providerResults[k] = [st |-> "completions", items |-> items]]
    /\ UNCHANGED notInlineVars

\* The k-th provider throws, or answers with undefined: its completions
\* are undefined.
IcProviderFails(k) ==
    /\ ic.pc = "awaiting"
    /\ ic.providerResults[k].st = "pending"
    /\ ic' = [ic EXCEPT !.providerResults[k] = [st |-> "undefined", items |-> <<>>]]
    /\ UNCHANGED notInlineVars

\* Promise.all has resolved: the results are collected and returned.
IcCollect ==
    /\ ic.pc = "awaiting"
    /\ \A k \in DOMAIN Providers : ic.providerResults[k].st # "pending"
    /\ ic' = [ic EXCEPT !.pc = "done",
                        !.completions = Values(Collect(<<>>, ic.providerResults, 1)),
                        !.resultMap = { Providers[k] : k \in { x \in DOMAIN Providers :
                                            ic.providerResults[x].st = "completions" } }]
    /\ UNCHANGED notInlineVars

InlineNext ==
    \/ IcCall
    \/ \E k \in DOMAIN Providers, items \in ItemLists(MaxItems) : IcProviderAnswers(k, items)
    \/ \E k \in DOMAIN Providers : IcProviderFails(k)
    \/ IcCollect

\* The parts that a specification of the authentication does not exercise.
OthersIdle == pat = NoPat /\ wm = NoWm /\ tf = NoTf /\ ic = NoIc

\* The authentication server when a specification does not exercise it.
AuthIdle ==
    /\ LoginIdle
    /\ srvKind = "github"
    /\ supported
    /\ extKind = "UI"
    /\ installed = V_3_1_0
    /\ RedirectIdle
    /\ LocalIdle
    /\ DeviceIdle
    /\ xc = NoXc

\* --------------------------------------------------------- specifications
\* One login call after another on a server object of any class.
LoginInit ==
    /\ LoginIdle /\ RedirectIdle /\ LocalIdle /\ DeviceIdle /\ xc = NoXc
    /\ OthersIdle
    /\ flow = "login"

SpecLogin == LoginInit /\ [][LoginNext]_vars

\* The interactive flows of the desktop GitHubServer: the callers make
\* overlapping doLoginWithoutLocalServer calls (flow = "redirect") or one
\* doLoginWithLocalServer call (flow = "local").
InteractiveInit ==
    /\ LoginIdle
    /\ srvKind = "github"
    /\ supported
    /\ extKind = "UI"
    /\ installed = V_3_1_0
    /\ RedirectIdle
    /\ LocalIdle
    /\ DeviceIdle
    /\ xc = NoXc
    /\ OthersIdle
    /\ flow \in {"redirect", "local"}

InteractiveNext == RedirectNext \/ LocalNext

SpecInteractive == InteractiveInit /\ [][InteractiveNext]_vars

\* The timers of doLoginWithLocalServer fire: the 5 minute timer of the race
\* is never cleared, the timer of server.stop() is set in a finally block.
SpecInteractiveFair ==
    /\ SpecInteractive
    /\ WF_vars(LsTimerFires)
    /\ WF_vars(LsSecondPasses)
    /\ WF_vars(LsStopFires)

\* One waitForDeviceCodeAccessToken call with the interval of the provider.
DeviceInit ==
    /\ LoginIdle
    /\ srvKind = "github"
    /\ supported
    /\ extKind = "UI"
    /\ installed = V_3_1_0
    /\ RedirectIdle
    /\ LocalIdle
    /\ DeviceIdle
    /\ xc = NoXc
    /\ OthersIdle
    /\ flow = "device"

SpecDevice == DeviceInit /\ [][DeviceNext]_vars

\* The same call with any interval the JSON of the provider can carry; the
\* timers fire and the requests end.
DeviceAnyInit ==
    /\ LoginIdle
    /\ srvKind = "github"
    /\ supported
    /\ extKind = "UI"
    /\ installed = V_3_1_0
    /\ RedirectIdle
    /\ LocalIdle
    /\ DeviceIdle
    /\ xc = NoXc
    /\ OthersIdle
    /\ flow = "deviceAny"

SpecDeviceAnyFair ==
    /\ DeviceAnyInit
    /\ [][DeviceNext]_vars
    /\ WF_vars(DeviceNext)

\* One exchangeCodeForToken call on a server object for github.com or for a
\* GitHub Enterprise URI.
ExchangeInit ==
    /\ LoginIdle
    /\ srvKind = "github"
    /\ supported
    /\ extKind = "UI"
    /\ installed = V_3_1_0
    /\ RedirectIdle
    /\ LocalIdle
    /\ DeviceIdle
    /\ ExchangeIdle
    /\ OthersIdle
    /\ flow = "exchange"

SpecExchange == ExchangeInit /\ [][ExchangeNext]_vars

\* One doLoginWithPat call.
PatInit == AuthIdle /\ OthersIdle /\ flow = "pat"

SpecPat == PatInit /\ [][PatNext]_vars

\* The WatermarkContribution after its constructor.
WatermarkInit ==
    /\ AuthIdle
    /\ pat = NoPat /\ tf = NoTf /\ ic = NoIc
    /\ wm \in { Constructed(config, state, ctx) :
                    config \in BOOLEAN, state \in WorkbenchStates, ctx \in BOOLEAN }
    /\ flow = "watermark"

SpecWatermark == WatermarkInit /\ [][WatermarkNext]_vars

\* The TabFocusImpl after its constructor.
TabFocusInit ==
    /\ AuthIdle
    /\ pat = NoPat /\ wm = NoWm /\ ic = NoIc
    /\ tf \in { TfConstructed(config) : config \in Modes }
    /\ flow = "tabFocus"

SpecTabFocus == TabFocusInit /\ [][TabFocusNext]_vars

\* One provideInlineCompletions call.
InlineInit == AuthIdle /\ OthersIdle /\ flow = "inline"

SpecInline == InlineInit /\ [][InlineNext]_vars

\* -------------------------------------------- claims: the interactive flows
\* Call a waits: its race is pending and the listener has not been resolved.
Waiting(a) == att[a].pc = "race" /\ prom[att[a].p].st = "pending"

ExchangeResults(code) == {Token(code), Failure("GitHubTokenExchangeError")}

\* C4: while a redirect call for scope string S waits, a callback with a code
\* and a nonce that is not registered under S neither resolves nor rejects
\* the call and changes neither the pending nonces nor the stored listener;
\* the call still waits on a subscribed listener afterwards.
C4_UnregisteredNonceIgnored ==
    [][\A uri \in Uris, a \in Attempts :
          ( /\ Deliver(uri)
            /\ Waiting(a)
            /\ uri.code # ""
            /\ uri.nonce # ""
            /\ ~InSeq(uri.nonce, pendingNonces[att[a].scope]) )
          => /\ att'[a].pc = "race"
             /\ att'[a].outcome = NoResult
             /\ prom'[att[a].p] = prom[att[a].p]
             /\ prom'[att[a].p].sub
             /\ pendingNonces' = pendingNonces
             /\ codeExchangePromises' = codeExchangePromises]_vars

\* C4 witness: the listener of a call ignored a callback and the call then
\* completed with the token of a later callback.
C4_Witness ==
    \E a \in Attempts : att[a].ign /\ att[a].outcome.kind = "token"

\* C5 as claimed: once a callback with the nonce the waiting call registered
\* has been delivered, the call ends with the result of exchanging its code,
\* and its scope string then has no pending nonces and no stored listener.
C5_CompletesWithExchange ==
    [][\A a \in Attempts :
          ( /\ att[a].pc = "race"
            /\ prom[att[a].p].st = "locked"
            /\ att[a].got
            /\ att'[a].pc = "done" )
          => /\ att'[a].outcome \in ExchangeResults(prom[att[a].p].code)
             /\ pendingNonces'[att[a].scope] = <<>>
             /\ codeExchangePromises'[att[a].scope] = 0]_vars

\* C5 amended: the callback with the registered nonce resolves the listener
\* with the exchange of its code; the call then ends exactly once, with the
\* result of that exchange or, when the timer or the cancellation comes
\* first, with 'Timed out' or 'User Cancelled'; in each case its scope string
\* then has no pending nonces and no stored listener.
C5_CompletesOnceAndClears ==
    [][\A a \in Attempts :
          /\ \A uri \in Uris :
                ( /\ Deliver(uri)
                  /\ Waiting(a)
                  /\ uri.code # ""
                  /\ uri.nonce = Nonce(a)
                  /\ InSeq(Nonce(a), pendingNonces[att[a].scope]) )
                => /\ att'[a].pc = "race"
                   /\ prom'[att[a].p].st = "locked"
                   /\ prom'[att[a].p].code = uri.code
                   /\ att'[a].got
          /\ ( /\ att[a].pc = "race"
               /\ prom[att[a].p].st = "locked"
               /\ att[a].got
               /\ att'[a].pc = "done" )
             => /\ att'[a].outcome \in
                      ExchangeResults(prom[att[a].p].code)
                        \cup {Failure("Timed out"), Failure("User Cancelled")}
                /\ att'[a].outcome \in ExchangeResults(prom[att[a].p].code)
                      <=> prom'[att[a].p].st \in {"fulfilled", "rejected"}
                /\ ended[a] = 0 /\ ended'[a] = 1
                /\ pendingNonces'[att[a].scope] = <<>>
                /\ codeExchangePromises'[att[a].scope] = 0]_vars

\* C5 witness: a call ended with the token exchanged for the code of the
\* callback that carried its nonce, and its scope string is cleared.
C5_Witness ==
    \E a \in Attempts :
        /\ att[a].pc = "done"
        /\ att[a].got
        /\ att[a].outcome = Token(prom[att[a].p].code)
        /\ pendingNonces[att[a].scope] = <<>>
        /\ codeExchangePromises[att[a].scope] = 0

\* C6: for every registered nonce, at most one callback that carries it
\* starts a code exchange.
C6_NonceAcceptedOnce ==
    \A a \in Attempts : accepted[a] <= 1

\* C7: when redirect calls for different scope strings overlap, the end of a
\* call leaves the pending nonces, the stored listener and the promises of
\* the other scope string as they are, and a callback with a code and the
\* nonce of a call of one scope string neither resolves nor rejects a call
\* of the other.
C7_ScopesIndependent ==
    [][/\ \A a \in Attempts, s \in Scopes :
            ( /\ att[a].pc = "race"
              /\ att'[a].pc = "done"
              /\ s # att[a].scope
              /\ \A b \in Attempts :
                    (att[b].scope = s /\ att[b].pc = "race") => att'[b].pc = "race" )
            => /\ pendingNonces'[s] = pendingNonces[s]
               /\ codeExchangePromises'[s] = codeExchangePromises[s]
               /\ \A p \in Attempts : prom[p].scope = s => prom'[p] = prom[p]
       /\ \A uri \in Uris, a, b \in Attempts :
            ( /\ Deliver(uri)
              /\ uri.code # ""
              /\ uri.nonce = Nonce(a)
              /\ att[a].pc # "idle"
              /\ att[b].pc = "race"
              /\ att[a].scope # att[b].scope )
            => /\ att'[b].pc = "race"
               /\ prom'[att[b].p] = prom[att[b].p] ]_vars

\* C7 witness: a call of one scope string has ended after its race while a
\* call of the other scope string waits with its nonce and listener in place.
C7_Witness ==
    \E a, b \in Attempts :
        /\ att[a].pc = "done"
        /\ att[a].p # 0
        /\ Waiting(b)
        /\ att[a].scope # att[b].scope
        /\ InSeq(Nonce(b), pendingNonces[att[b].scope])
        /\ codeExchangePromises[att[b].scope] = att[b].p

\* C8 as claimed: when two redirect calls for the same scope string overlap,
\* the end of one by timeout or cancellation leaves the nonce of the other
\* registered and the other waiting.
C8_SameScopeSurvives ==
    [][\A a, b \in Attempts :
          ( /\ a # b
            /\ att[a].scope = att[b].scope
            /\ att[a].pc = "race"
            /\ Waiting(b)
            /\ InSeq(Nonce(b), pendingNonces[att[b].scope])
            /\ att'[a].pc = "done"
            /\ att'[a].outcome \in {Failure("Timed out"), Failure("User Cancelled")} )
          => /\ att'[b].pc = "race"
             /\ InSeq(Nonce(b), pendingNonces'[att[b].scope]) ]_vars

\* C8 amended: when two redirect calls for the same scope string overlap, the
\* end of one after its race removes all pending nonces of the scope string,
\* the nonce of the other included, and the stored listener; when the other
\* waits on the same unresolved listener it ends in the same turn, with
\* 'Cancelled' if the first timed out or was cancelled.
C8_SameScopeEndTogether ==
    [][\A a, b \in Attempts :
          ( /\ a # b
            /\ att[a].scope = att[b].scope
            /\ att[a].pc = "race"
            /\ att[b].pc \in {"endpoint", "browser", "race"}
            /\ att'[a].pc = "done" )
          => /\ pendingNonces'[att[a].scope] = <<>>
             /\ codeExchangePromises'[att[a].scope] = 0
             /\ (Waiting(b) /\ att[b].p = att[a].p) =>
                   /\ att'[b].pc = "done"
                   /\ att'[a].outcome \in {Failure("Timed out"), Failure("User Cancelled")}
                         => att'[b].outcome = Failure("Cancelled") ]_vars

\* C8 witness: of two calls that waited on one listener, one timed out and
\* the other ended with 'Cancelled'.
C8_Witness ==
    \E a, b \in Attempts :
        /\ a # b
        /\ att[a].p # 0
        /\ att[a].p = att[b].p
        /\ att[a].outcome = Failure("Timed out")
        /\ att[b].outcome = Failure("Cancelled")

\* C9: once a doLoginWithoutLocalServer call has ended, the nonce it
\* registered is not in the pending-nonce map.
C9_NonceGoneAfterEnd ==
    \A a \in Attempts :
        att[a].pc = "done" => ~InSeq(Nonce(a), pendingNonces[att[a].scope])

\* C10 as claimed: the first of callback delivery, timeout and cancellation
\* decides the outcome: after the expected callback has been delivered, the
\* attempt ends with the result of the exchange.
C10_FirstEventDecides ==
    [][/\ \A a \in Attempts :
            ( /\ att[a].pc = "race"
              /\ prom[att[a].p].st = "locked"
              /\ att'[a].pc = "done" )
            => att'[a].outcome \notin {Failure("Timed out"), Failure("User Cancelled")}
       /\ (ls.pc = "exchange" /\ ls'.pc = "done")
            => ls'.outcome \notin {Failure("Timed out"), Failure("User Cancelled")} ]_vars

\* C10 amended: an interactive attempt ends exactly once, and a later event
\* does not change its outcome. A local server attempt ends with the outcome
\* of the first of callback, timeout and cancellation. For a redirect attempt
\* the success source is the end of the code exchange that the callback
\* started: it ends with the outcome of the first of exchange end, timeout,
\* cancellation and rejection of its listener, so that a timeout or a
\* cancellation between the callback and the end of the exchange decides.
C10_EndsOnceFirstSettledWins ==
    [][/\ \A a \in Attempts :
            /\ att[a].pc = "done" => (att'[a] = att[a] /\ ended'[a] = ended[a])
            /\ ended'[a] <= 1
            /\ (att[a].pc = "race" /\ att'[a].pc = "done") =>
                  /\ ended'[a] = ended[a] + 1
                  /\ timer'[a] # timer[a] => att'[a].outcome = Failure("Timed out")
                  /\ att'[a].outcome.kind = "token" =>
                        /\ prom[att[a].p].st = "locked"
                        /\ prom'[att[a].p].st = "fulfilled"
                        /\ att'[a].outcome = Token(prom[att[a].p].code)
                  /\ (prom[att[a].p].st = "locked" /\ prom'[att[a].p].st = "fulfilled")
                        => att'[a].outcome = Token(prom[att[a].p].code)
       /\ ls.pc = "done" => (ls'.pc = "done" /\ ls'.outcome = ls.outcome)
       /\ (ls.pc = "exchange" /\ ls'.pc # "exchange") =>
             (ls'.pc = "done" /\ ls'.outcome \in ExchangeResults(ls.code))
       /\ (ls.pc = "race" /\ ls'.pc = "done") =>
             /\ ls'.outcome \in {Failure("Timed out"), Failure("User Cancelled")}
             /\ ls'.outcome = Failure("Timed out") <=> ls'.timer # ls.timer ]_vars

\* C10 witness: a redirect attempt ended with 'Timed out' after the callback
\* with its nonce had been delivered, while the code exchange was running.
C10_Witness ==
    \E a \in Attempts :
        /\ att[a].outcome = Failure("Timed out")
        /\ prom[att[a].p].st = "locked"
        /\ att[a].got

\* ------------------------------------------------- claims: the login chain
Order(s) ==
    CASE s = "redirect" -> 1 [] s = "local" -> 2 [] s = "device" -> 3 [] s = "pat" -> 4

IsFailure(x) == x.ev \in {"fail", "no"}

\* The last failure a catch block recorded (the log holds one).
LastFailure ==
    log[CHOOSE i \in DOMAIN log :
            /\ IsFailure(log[i])
            /\ \A j \in DOMAIN log : j > i => ~IsFailure(log[j])]

\* C1: in the desktop GitHubServer.login the strategies start in the order
\* redirect, local server, device code, personal access token, each at most
\* once per call; a strategy's token ends the call: login returns that
\* token and nothing is started after it.
C1_FixedOrderShortCircuit ==
    srvKind = "github" =>
        /\ \A i, j \in DOMAIN log :
              (i < j /\ log[i].ev = "start" /\ log[j].ev = "start")
                  => Order(log[i].s) < Order(log[j].s)
        /\ \A i \in DOMAIN log :
              log[i].ev = "token" =>
                  /\ i = Len(log)
                  /\ lpc = "done"
                  /\ result = Token(log[i].s)
                  /\ log[i - 1] = Ev("start", log[i].s, NoE)
        /\ (lpc = "done" /\ result.kind = "token") =>
              (log # <<>> /\ log[Len(log)].ev = "token")

\* C1 witness: redirect and local server failed, device code returned the token.
C1_Witness ==
    /\ srvKind = "github"
    /\ lpc = "done"
    /\ result = Token("device")
    /\ \E i, j \in DOMAIN log :
          /\ log[i] = Ev("start", "redirect", NoE)
          /\ log[j] = Ev("start", "local", NoE)

\* C2: when login of GitHubServer or SimpleGitHubEnterpriseServer throws after
\* its strategies failed, the error is 'Cancelled' if the last recorded
\* failure was a user cancellation and 'No auth flow succeeded.' if it was a
\* technical failure.
C2_CancelledIffUserCancelled ==
    (srvKind \in {"github", "simple"} /\ lpc = "done" /\ result.kind = "error") =>
        result.v = (IF LastFailure.e.user THEN "Cancelled"
                    ELSE "No auth flow succeeded.")

PollEnds == dc.pc = "request" /\ dc'.pc # "request"

\* C11: with interval = 5, authorization_pending as the answer to every poll
\* and no cancellation, waitForDeviceCodeAccessToken issues exactly 24 token
\* requests and then fails with 'Cancelled'.
C11_TwentyFourPolls ==
    (dc.interval = 5 /\ dc.onlyPending /\ ~dc.cancel) =>
        /\ dc.requests <= 24
        /\ dc.pc = "done" =>
              (dc.requests = 24 /\ dc.outcome = Failure("Cancelled"))

\* C11 witness: the call has ended after polls that were all pending.
C11_Witness ==
    /\ dc.pc = "done"
    /\ dc.interval = 5
    /\ dc.onlyPending
    /\ ~dc.cancel
    /\ dc.requests = 24

\* C12: for every positive interval the number of token requests is at most
\* 120 / interval, so that the waits before them total at most 120 seconds.
C12_RequestsWithinWindow ==
    /\ dc.requests * dc.interval <= 120
    /\ dc.waited <= 120

\* C13 as stated: a network exception and an authorization_pending response
\* lead to another poll at the next tick with the same interval; a response
\* with any other error ends polling with its error_description; a response
\* without error ends polling with its access_token.
C13_PollOutcomes ==
    [][PollEnds =>
        LET r == dc'.last
        IN IF r.kind = "exception" \/ r.error = "authorization_pending"
           THEN /\ dc'.pc = "wait"
                /\ dc'.interval = dc.interval
                /\ dc'.outcome = NoResult
           ELSE IF r.error # ""
           THEN dc'.pc = "done" /\ dc'.outcome = Failure(r.error_description)
           ELSE dc'.pc = "done" /\ dc'.outcome = Token(r.access_token)]_vars

\* C13 amended: a network exception, a non-success response whatever its body
\* and a success response with authorization_pending end the iteration: if
\* another iteration fits the window the call waits the same interval again
\* (and then polls unless cancellation was requested), otherwise it fails
\* with 'Cancelled'; a success response with any other error ends polling
\* with its error_description and no further request; a success response
\* without error ends polling with its access_token.
C13_PollOutcomesByStatus ==
    [][/\ PollEnds =>
            LET r == dc'.last
            IN /\ dc'.requests = dc.requests
               /\ dc'.interval = dc.interval
               /\ IF r.kind = "exception" \/ ~r.ok \/ r.error = "authorization_pending"
                  THEN IF (dc.i + 1) * dc.interval < 120
                       THEN dc'.pc = "wait" /\ dc'.outcome = NoResult
                       ELSE dc'.pc = "done" /\ dc'.outcome = Failure("Cancelled")
                  ELSE IF r.error # ""
                  THEN dc'.pc = "done" /\ dc'.outcome = Failure(r.error_description)
                  ELSE dc'.pc = "done" /\ dc'.outcome = Token(r.access_token)
       /\ (dc.pc = "wait" /\ dc'.pc # "wait" /\ ~dc.cancel) =>
            /\ dc'.pc = "request"
            /\ dc'.requests = dc.requests + 1
            /\ dc'.waited = dc.waited + dc.interval
       /\ dc.pc = "done" => dc' = dc]_vars

\* C13 witness: a poll was retried and a later one was denied.
C13_Witness ==
    /\ dc.pc = "done"
    /\ dc.i >= 1
    /\ dc.last = Response(TRUE, "access_denied")
    /\ dc.outcome = Failure("description of access_denied")

\* C14: after cancellation of the progress notification is requested no new
\* token request is issued: the next tick ends polling with 'User Cancelled'.
C14_NoPollAfterCancel ==
    [][dc.cancel =>
        /\ dc'.requests = dc.requests
        /\ (dc.pc = "wait" /\ dc' # dc) =>
              (dc'.pc = "done" /\ dc'.outcome = Failure("User Cancelled"))]_vars

\* C14 witness: cancellation was requested after a poll and the tick after it
\* ended the call.
C14_Witness ==
    /\ dc.pc = "done"
    /\ dc.cancel
    /\ dc.requests >= 1
    /\ dc.outcome = Failure("User Cancelled")

\* C15: once cancellation has been requested the call ends in Cancelled and
\* never returns an access token, also when the cancellation arrives while a
\* token request is in flight.
C15_CancelledNeverToken ==
    (dc.pc = "done" /\ dc.cancel) =>
        dc.outcome \in {Failure("User Cancelled"), Failure("Cancelled")}

\* ------------------------------------------- claims: the code exchange
HasParam(name) == \E k \in DOMAIN xc.body : xc.body[k][1] = name

\* C16: exchangeCodeForToken returns the access_token of a successful
\* response, and for a non-success response throws an error named
\* GitHubTokenExchangeError whose message is the response body verbatim.
C16_TokenOrExchangeError ==
    (xc.pc = "done" /\ xc.response # NoResponse) =>
        IF xc.response.ok
        THEN xc.outcome = Returned(xc.response.access_token)
        ELSE /\ xc.outcome.kind = "error"
             /\ xc.outcome.name = "GitHubTokenExchangeError"
             /\ xc.outcome.v = xc.response.text

\* C16 witness: the token endpoint has answered with a non-success response.
C16_Witness ==
    /\ xc.pc = "done"
    /\ ~xc.response.ok
    /\ xc.response.text = "bad_verification_code"
    /\ xc.outcome.kind = "error"

\* C17: the body of the token request carries github_enterprise and
\* redirect_uri if and only if the server was constructed with a GitHub
\* Enterprise URI; for github.com the body carries only the code.
C17_EnterpriseParamsIffGhes ==
    xc.sent =>
        /\ xc.body[1] = <<"code", xc.code>>
        /\ HasParam("github_enterprise") <=> xc.ghesUri # ""
        /\ HasParam("redirect_uri") <=> xc.ghesUri # ""
        /\ xc.ghesUri = "" => xc.body = << <<"code", xc.code>> >>

\* C17 witness: a request was issued by a server with an enterprise URI.
C17_Witness ==
    /\ xc.sent
    /\ xc.ghesUri # ""
    /\ xc.body = << <<"code", xc.code>>, <<"github_enterprise", xc.ghesUri>>,
                    <<"redirect_uri", xc.redirectEndpoint>> >>

\* ------------------------------------- claims: versions, prompts, the server
\* major.minor of v is 3.1 or above, compared as numbers.
AtLeast_3_1(v) ==
    LET parts == Split(v)
    IN Num(parts[1]) > 3 \/ (Num(parts[1]) = 3 /\ Num(parts[2]) >= 1)

DeviceCodeTried == \E i \in DOMAIN log : log[i].s = "device"

\* C18: SimpleGitHubEnterpriseServer.login attempts the device-code strategy
\* if and only if the installed version major.minor.patch is 3.1 or above,
\* major and minor compared as numbers.
C18_DeviceCodeFromVersion_3_1 ==
    (/\ srvKind = "simple"
     /\ version # NoVersion
     /\ Len(Split(version)) = 3
     /\ (blk > 1 \/ lpc \in {"prompt", "running", "done"})) =>
        (DeviceCodeTried <=> AtLeast_3_1(version))

\* C19: once the loopback server of doLoginWithLocalServer has started it is
\* eventually stopped, whatever the outcome of the attempt, and not earlier
\* than 5 seconds after the race has ended.
C19_ServerStoppedAfterGrace ==
    /\ [](ls.server = "stopped" => stopClock >= 5)
    /\ (ls.server = "listening") ~> (ls.server = "stopped")

\* C19 witness: the race timed out and the server was stopped afterwards.
C19_Witness ==
    /\ ls.server = "stopped"
    /\ ls.pc = "done"
    /\ ls.outcome = Failure("Timed out")

\* C20: when the user answers anything other than Yes to a continue prompt,
\* the login call starts no further strategy, shows no further prompt and
\* fails with 'Cancelled'.
C20_DeclinedPromptEndsLogin ==
    \A i \in DOMAIN log :
        log[i].ev = "no" =>
            /\ \A j \in DOMAIN log : j > i => log[j].ev \notin {"prompt", "start"}
            /\ lpc = "done" => result = Failure("Cancelled")

C23_StartOnlyUnderGuard ==
    srvKind = "github" =>
        \A i \in DOMAIN log :
            log[i].ev = "start" =>
                /\ log[i].s = "redirect" => supported
                /\ log[i].s = "local" => extKind = "UI"
                /\ log[i].s = "pat" => ~supported

\* C23 witness: outside a supported environment and outside the UI, device
\* code was the first strategy and the token strategy followed.
C23_Witness ==
    /\ srvKind = "github"
    /\ ~supported
    /\ extKind = "Workspace"
    /\ Len(log) >= 5
    /\ log[1] = Ev("start", "device", NoE)
    /\ log[Len(log)] = Ev("start", "pat", NoE)

\* ------------------------------------------------ claims: the web login
\* C24: the web GitHubServer.login starts exactly one strategy per call
\* (redirect in a supported callback environment, otherwise personal access
\* token) and, when that strategy fails, throws 'Cancelled' if the failure
\* was a user cancellation and 'No auth flow succeeded.' otherwise.
C24_WebOneStrategy ==
    srvKind = "web" =>
        /\ Cardinality({i \in DOMAIN log : log[i].ev = "start"}) <= 1
        /\ lpc \in {"running", "done"} =>
              log[1] = Ev("start", IF supported THEN "redirect" ELSE "pat", NoE)
        /\ (lpc = "done" /\ result.kind = "error") =>
              result.v = (IF LastFailure.e.user THEN "Cancelled"
                          ELSE "No auth flow succeeded.")

\* ------------------------------------------ claims: the redirect endpoint
\* major.minor of v is 3.8 or above, compared as numbers.
AtLeast_3_8(v) ==
    LET parts == Split(v)
    IN /\ Len(parts) >= 2
       /\ Num(parts[1]) >= 4 \/ (Num(parts[1]) = 3 /\ Num(parts[2]) >= 8)

\* C22: for a GitHub Enterprise server whose /meta endpoint reports version
\* 3.8 or above getRedirectEndpoint returns 'https://vscode.dev/redirect';
\* for a lower version, an unparsable answer or a non-success /meta response
\* it returns 'https://vscode-auth.github.com/'.
C22_RedirectEndpointByVersion ==
    (xc.type = "githubEnterprise" /\ xc.meta # NoMeta) =>
        xc.redirectEndpoint =
            (IF /\ xc.meta.ok
                /\ xc.meta.installed_version # NoVersion
                /\ AtLeast_3_8(xc.meta.installed_version)
             THEN "https://vscode.dev/redirect"
             ELSE "https://vscode-auth.github.com/")

\* ------------------------------------- claims: termination of the polling
\* C25: for every interval the provider can return, 0 and a missing value
\* included, waitForDeviceCodeAccessToken terminates against a provider that
\* answers authorization_pending forever and a user who never cancels.
C25_PollingTerminates ==
    (dc.pc # "done") ~> (dc.pc = "done" \/ dc.cancel \/ ~dc.onlyPending)

\* --------------------------------------------- claims: malformed callbacks
\* C26: a URI callback that lacks a code or lacks a nonce rejects the waiting
\* redirect call of every scope string with 'No code' or 'No nonce'
\* respectively and starts no code exchange.
C26_MalformedCallbackRejectsAll ==
    [][\A uri \in Uris :
          ((uri.code = "" \/ uri.nonce = "") /\ Deliver(uri)) =>
              /\ \A a \in Attempts :
                    Waiting(a) =>
                        /\ att'[a].pc = "done"
                        /\ att'[a].outcome =
                              Failure(IF uri.code = "" THEN "No code" ELSE "No nonce")
              /\ accepted' = accepted
              /\ \A q \in Attempts : prom'[q].st = "locked" => prom[q].st = "locked"]_vars

\* C26 witness: the calls of two scope strings were rejected by a callback
\* with a code and without nonce.
C26_Witness ==
    /\ att[1].scope # att[2].scope
    /\ att[1].outcome = Failure("No nonce")
    /\ att[2].outcome = Failure("No nonce")

\* ---------------------------------- claims: the personal access token
\* The scopes that a scopes argument requests, and the parts of a scope.
RequestedScopes(scopes) ==
    CASE scopes = <<"repo">> -> { <<"repo">> }
      [] scopes = <<"read", ":", "user">> -> { <<"read", ":", "user">> }
      [] scopes = <<"read", ":", "user", " ", "repo">> ->
            { <<"read", ":", "user">>, <<"repo">> }
      [] scopes = <<"repo", " ", "user", ":", "email">> ->
            { <<"repo">>, <<"user", ":", "email">> }
      [] scopes = <<"repo", " ", " ", "user">> -> { <<"repo">>, <<>>, <<"user">> }
      [] scopes = <<>> -> { <<>> }

ColonParts(scope) ==
    CASE scope = <<"read", ":", "user">> -> { <<"read">>, <<"user">> }
      [] scope = <<"user", ":", "email">> -> { <<"user">>, <<"email">> }
      [] OTHER -> {}

\* C27: doLoginWithPat returns the entered non-empty token if and only if,
\* for every requested scope, the scopes of the token contain that scope or,
\* when the scope contains ':', contain at least one of its colon-separated
\* parts; otherwise it throws the scope-mismatch error.
C27_PatScopesCovered ==
    (pat.pc = "done" /\ pat.checked) =>
        /\ pat.token # ""
        /\ IF \A scope \in RequestedScopes(pat.scopes) :
                 \/ scope \in pat.tokenScopes
                 \/ ColonParts(scope) \cap pat.tokenScopes # {}
           THEN pat.outcome = Token(pat.token)
           ELSE pat.outcome = Failure(ScopeMismatch)

\* C27 witness: 'read:user repo' was requested and a token with the scopes
\* user and repo was returned.
C27_Witness ==
    /\ pat.pc = "done"
    /\ pat.scopes = <<"read", ":", "user", " ", "repo">>
    /\ pat.tokenScopes = { <<"user">>, <<"repo">> }
    /\ pat.outcome = Token(pat.token)

\* ------------------------------------------------- claims: the watermark
\* C28: After any sequence of configuration changes, workbench-state changes
\* and context-key changes handled by WatermarkContribution, a watermark
\* element is attached to the editor part only while workbench.tips.enabled
\* is true.
C28_WatermarkOnlyWhileEnabled ==
    (wm.pc = "live" /\ wm.attached > 0) => wm.config

\* ------------------------------------------------- claims: the tab focus
\* C29: TabFocusImpl.setTabFocusMode(v) fires onDidChangeTabFocus exactly
\* once with v when v differs from the current mode, and fires nothing and
\* changes nothing when v equals it, so after any sequence of calls and
\* configuration changes two consecutive events never carry the same value.
C29_FiresOnlyOnChange ==
    /\ [][\A v \in Modes :
            (\/ TfSetTabFocusMode(v)
             \/ TfConfigurationChanged(v)
             \/ (TfToggle /\ v = Not(tf.tabFocus)))
            => IF v # tf.tabFocus
               THEN tf'.events = Append(tf.events, v) /\ tf'.tabFocus = v
               ELSE tf'.events = tf.events /\ tf'.tabFocus = tf.tabFocus]_vars
    /\ [](\A k \in 1 .. Len(tf.events) - 1 : tf.events[k] # tf.events[k + 1])

\* C29 witness: the mode changed twice and one call with the current mode
\* fired nothing.
C29_Witness ==
    /\ tf.pc = "live"
    /\ Len(tf.events) = 3
    /\ tf.calls = 3

\* ------------------------------------------ claims: the inline completions
\* The (insertText, range) pair of an item that a provider gave.
PairOf(item) ==
    <<item.insertText, IF item.range = NoRange THEN DefaultReplaceRange ELSE item.range>>

\* The places of a pair in the completions of the result.
PlacesOf(pair) ==
    { i \in DOMAIN ic.completions :
        <<ic.completions[i].insertText, ic.completions[i].range>> = pair }

====
